---- MODULE Spec2Model ----
(***************************************************************************)
(* vqx: JSON normalization (src/normalizer.rs) and directory diff          *)
(* (src/commands/diff.rs).                                                 *)
(*                                                                         *)
(* JSON values are tagged records; an object is the sequence of its        *)
(* (key, value) entries in iteration order, an array the sequence of its   *)
(* elements.  Strings are TLA+ strings; their byte order (String::cmp) and *)
(* substring test (str::contains) are computed on their UTF-8 bytes.       *)
(***************************************************************************)
EXTENDS Integers, Sequences, FiniteSets, TLC

VARIABLES
    \* ---- Normalizer::normalize on one value
    config,        \* Normalizer.config (NormalizationConfig)
    sort_impl,     \* which stable small-slice sort the toolchain's slice::sort_by uses
    value,         \* the parsed input value
    result,        \* the value returned by the latest normalize call
    first,         \* the value returned by the call before it
    npc,           \* "start" | "once" | "twice"
    \* ---- compare_directories / display_diff_results
    source_dir,    \* the tree under the first root
    target_dir,    \* the tree under the second root
    filter_types,  \* args.resource
    full_diff,     \* args.full
    resource_types,\* the resource types still to compare
    added, removed, modified, errors,   \* the four accumulators
    report,        \* the DiffResult returned
    printed,       \* what display_diff_results wrote
    prev_report,   \* the DiffResult of the run before the roots were swapped
    swapped,       \* TRUE once the roots have been swapped
    dpc,           \* "start" | "loop" | "done" | "shown"
    \* ---- normalize_file / normalize_resource_file on one path
    file,          \* the bytes at the path
    original,      \* the bytes at the path before the call
    method,        \* "normalize_file" | a resource type for normalize_resource_file
    content,       \* the text read
    output,        \* the text serialized
    outcome,       \* the call's return value
    fpc,           \* "start" | "read" | "serialized" | "opened" | "returned"
    \* ---- normalize_directory / normalize_export_directory and their callers
    op,            \* "normalize_directory" | "export" | "sync_pull" | "diff"
    exported,      \* the tree under dir before the call
    export_dir,    \* the tree under dir
    resource_dirs_left, \* the resource_dirs the loop has still to test
    walk,          \* the directories being listed, innermost last, with their entries left
    stats,         \* NormalizationStats
    walked,        \* what the call returned
    op_result,     \* the ExportResult or SyncResult the caller returned
    tpc,           \* "start" | "walking" | "returned" | "done"
    \* ---- commands/sync.rs run_push
    push_args,     \* SyncPushArgs: directory, yes, dry_run
    output_format, \* OutputFormat: "Text" | "Json" | "Csv"
    changes,       \* Option<SyncChanges> taken from the diff preview
    calls,         \* the calls made so far to the server and to the terminal, in order
    sync_result,   \* the Result<SyncResult> returned
    ppc            \* "start" | "checked" | "exported" | "previewed" | "confirmed" | "returned"

norm_vars == <<config, sort_impl, value, result, first, npc>>
diff_vars == <<source_dir, target_dir, filter_types, full_diff, resource_types,
               added, removed, modified, errors, report, printed, prev_report,
               swapped, dpc>>
file_vars == <<file, original, method, content, output, outcome, fpc>>
tree_vars == <<op, exported, export_dir, resource_dirs_left, walk, stats, walked, op_result, tpc>>
push_vars == <<push_args, output_format, changes, calls, sync_result, ppc>>
vars == <<norm_vars, diff_vars, file_vars, tree_vars, push_vars>>

(***************************************************************************)
(* Strings                                                                 *)
(***************************************************************************)
Bytes ==
    ("name" :> <<110, 97, 109, 101>>) @@
    ("id" :> <<105, 100>>) @@
    ("_id" :> <<95, 105, 100>>) @@
    ("ars_modifiedAt" :> <<97, 114, 115, 95, 109, 111, 100, 105, 102, 105, 101, 100, 65, 116>>) @@
    ("ars_createdAt" :> <<97, 114, 115, 95, 99, 114, 101, 97, 116, 101, 100, 65, 116>>) @@
    ("ars_modifiedBy" :> <<97, 114, 115, 95, 109, 111, 100, 105, 102, 105, 101, 100, 66, 121>>) @@
    ("ars_createdBy" :> <<97, 114, 115, 95, 99, 114, 101, 97, 116, 101, 100, 66, 121>>) @@
    ("ars_version" :> <<97, 114, 115, 95, 118, 101, 114, 115, 105, 111, 110>>) @@
    ("pos" :> <<112, 111, 115>>) @@
    ("apple" :> <<97, 112, 112, 108, 101>>) @@
    ("zebra" :> <<122, 101, 98, 114, 97>>) @@
    ("custom_field" :> <<99, 117, 115, 116, 111, 109, 95, 102, 105, 101, 108, 100>>) @@
    ("properties" :> <<112, 114, 111, 112, 101, 114, 116, 105, 101, 115>>) @@
    ("indexes" :> <<105, 110, 100, 101, 120, 101, 115>>) @@
    ("a" :> <<97>>) @@
    ("b" :> <<98>>) @@
    ("types" :> <<116, 121, 112, 101, 115>>) @@
    ("procedures" :> <<112, 114, 111, 99, 101, 100, 117, 114, 101, 115>>) @@
    ("rules" :> <<114, 117, 108, 101, 115>>) @@
    ("sources" :> <<115, 111, 117, 114, 99, 101, 115>>) @@
    ("services" :> <<115, 101, 114, 118, 105, 99, 101, 115>>) @@
    ("topics" :> <<116, 111, 112, 105, 99, 115>>) @@
    ("collaborationtypes" :> <<99, 111, 108, 108, 97, 98, 111, 114, 97, 116, 105, 111, 110, 116, 121, 112, 101, 115>>) @@
    ("aicomponents" :> <<97, 105, 99, 111, 109, 112, 111, 110, 101, 110, 116, 115>>) @@
    ("catalogs" :> <<99, 97, 116, 97, 108, 111, 103, 115>>) @@
    ("clients" :> <<99, 108, 105, 101, 110, 116, 115>>) @@
    ("configurations" :> <<99, 111, 110, 102, 105, 103, 117, 114, 97, 116, 105, 111, 110, 115>>) @@
    ("debugconfigs" :> <<100, 101, 98, 117, 103, 99, 111, 110, 102, 105, 103, 115>>) @@
    ("deployconfigs" :> <<100, 101, 112, 108, 111, 121, 99, 111, 110, 102, 105, 103, 115>>) @@
    ("environments" :> <<101, 110, 118, 105, 114, 111, 110, 109, 101, 110, 116, 115>>) @@
    ("projects" :> <<112, 114, 111, 106, 101, 99, 116, 115>>) @@
    ("scheduledevents" :> <<115, 99, 104, 101, 100, 117, 108, 101, 100, 101, 118, 101, 110, 116, 115>>) @@
    ("subscriptions" :> <<115, 117, 98, 115, 99, 114, 105, 112, 116, 105, 111, 110, 115>>) @@
    ("systemmodels" :> <<115, 121, 115, 116, 101, 109, 109, 111, 100, 101, 108, 115>>) @@
    ("data" :> <<100, 97, 116, 97>>) @@
    ("documents" :> <<100, 111, 99, 117, 109, 101, 110, 116, 115>>) @@
    ("misc" :> <<109, 105, 115, 99>>) @@
    ("type" :> <<116, 121, 112, 101>>) @@
    ("rule" :> <<114, 117, 108, 101>>) @@
    ("Foo" :> <<70, 111, 111>>) @@
    ("Bar" :> <<66, 97, 114>>) @@
    ("Baz" :> <<66, 97, 122>>) @@
    ("" :> <<>>)

\* std::cmp::Ordering of two integers
int_cmp(x, y) == IF x < y THEN "Less" ELSE IF x > y THEN "Greater" ELSE "Equal"

\* String::cmp: lexicographic on the bytes, a proper prefix first
str_cmp(s1, s2) ==
    LET x == Bytes[s1]
        y == Bytes[s2]
        n == IF Len(x) < Len(y) THEN Len(x) ELSE Len(y)
        diff == {i \in 1..n : x[i] # y[i]}
    IN IF diff = {} THEN int_cmp(Len(x), Len(y))
       ELSE LET i == CHOOSE k \in diff : \A j \in diff : k <= j
            IN int_cmp(x[i], y[i])

\* str::contains(pattern)
str_contains(s, pat) ==
    LET x == Bytes[s]
        p == Bytes[pat]
    IN \E off \in 0..(Len(x) - Len(p)) : \A i \in 1..Len(p) : x[off + i] = p[i]

(***************************************************************************)
(* serde_json::Value                                                       *)
(***************************************************************************)
Null == [t |-> "null"]
Bool(b) == [t |-> "bool", b |-> b]
Num(n) == [t |-> "num", n |-> n]
Str(s) == [t |-> "str", s |-> s]
Obj(kv) == [t |-> "obj", kv |-> kv]
Arr(el) == [t |-> "arr", el |-> el]

is_object(v) == v.t = "obj"

\* Option<T>: None is the empty sequence, Some(x) the sequence of x alone
None == <<>>
Some(x) == <<x>>

\* Value::get(field): the member of an object, None for a missing key or a non-object
get(v, field) ==
    IF is_object(v) /\ \E i \in 1..Len(v.kv) : v.kv[i][1] = field
    THEN Some(v.kv[CHOOSE i \in 1..Len(v.kv) : v.kv[i][1] = field][2])
    ELSE None

Keys(v) == {v.kv[i][1] : i \in 1..Len(v.kv)}

(***************************************************************************)
(* NormalizationConfig                                                     *)
(***************************************************************************)
default_excluded_fields ==
    {"ars_modifiedAt", "ars_createdAt", "ars_modifiedBy", "ars_createdBy", "_id", "ars_version"}

default_sort_fields == <<"name", "id", "_id">>

DefaultConfig ==
    [sort_keys |-> TRUE, sort_arrays |-> TRUE,
     excluded_fields |-> default_excluded_fields,
     array_sort_fields |-> default_sort_fields]

(***************************************************************************)
(* slice::sort_by.  The standard library sorts a slice of at most 20       *)
(* elements by insertion: since 1.81 each element in turn is shifted left  *)
(* into the sorted prefix ("shift_left"), before that each element in turn *)
(* from the right was shifted right into the sorted suffix ("insert_head").*)
(* Both are stable; they agree whenever the comparison is a total          *)
(* preorder, and are kept apart because compare_values is not one.         *)
(***************************************************************************)
SortImpls == {"shift_left", "insert_head"}

InsertAt(s, p, x) == SubSeq(s, 1, p) \o <<x>> \o SubSeq(s, p + 1, Len(s))

\* The sorts below move the indices of the slice; lt[i][j] is what the closure
\* answers when asked whether element i is less than element j.

\* x moves left past every element it is less than, and stops at the first it is not
shift_left(s, x, lt) ==
    LET stop == {j \in 1..Len(s) : ~lt[x][s[j]]}
        p == IF stop = {} THEN 0 ELSE CHOOSE j \in stop : \A k \in stop : k <= j
    IN InsertAt(s, p, x)

\* x moves right past every element that is less than it, and stops at the first that is not
insert_head(x, s, lt) ==
    LET stop == {j \in 1..Len(s) : ~lt[s[j]][x]}
        p == IF stop = {} THEN Len(s) ELSE (CHOOSE j \in stop : \A k \in stop : j <= k) - 1
    IN InsertAt(s, p, x)

sort_by(impl, s, lt) ==
    LET n == Len(s)
        left[i \in 0..n] == IF i = 0 THEN <<>> ELSE shift_left(left[i - 1], i, lt)
        right[i \in 0..n] == IF i = 0 THEN <<>> ELSE insert_head(n + 1 - i, right[i - 1], lt)
        order == IF impl = "shift_left" THEN left[n] ELSE right[n]
    IN [k \in 1..n |-> s[order[k]]]

(***************************************************************************)
(* Normalizer                                                              *)
(***************************************************************************)
\* self is the Normalizer: its config, and the sort its build links
Normalizer(cfg, impl) == [config |-> cfg, sort_impl |-> impl]

compare_values(a, b) ==
    IF a.t = "str" /\ b.t = "str" THEN str_cmp(a.s, b.s)
    ELSE IF a.t = "num" /\ b.t = "num" THEN int_cmp(a.n, b.n)
    ELSE IF a.t = "bool" /\ b.t = "bool"
         THEN int_cmp(IF a.b THEN 1 ELSE 0, IF b.b THEN 1 ELSE 0)
    ELSE "Equal"

\* what one round of the loop over array_sort_fields does: return an ordering, or go on
compare_field(field, a, b) ==
    LET a_val == get(a, field)
        b_val == get(b, field)
    IN IF a_val # None /\ b_val # None
       THEN LET cmp == compare_values(a_val[1], b_val[1])
            IN IF cmp # "Equal" THEN cmp ELSE "continue"
       ELSE IF a_val # None THEN "Less"
       ELSE IF b_val # None THEN "Greater"
       ELSE "continue"

compare_objects(self, a, b) ==
    LET fields == self.config.array_sort_fields
        decided == {i \in 1..Len(fields) : compare_field(fields[i], a, b) # "continue"}
    IN IF decided = {} THEN "Equal"
       ELSE compare_field(fields[CHOOSE i \in decided : \A j \in decided : i <= j], a, b)

\* the closure handed to sort_by, as the sort reads it
is_less_unstable(self, a, b) == compare_objects(self, a, b) # "Greater"
is_less(self, a, b) == compare_objects(self, a, b) = "Less"

\* BTreeMap::insert: the entry goes to its place in key order, replacing an equal key
btree_insert_front(m, k, v) == << <<k, v>> >> \o m
btree_insert(m, k, v) ==
    LET before == SelectSeq(m, LAMBDA e : str_cmp(e[1], k) = "Less")
        after == SelectSeq(m, LAMBDA e : str_cmp(e[1], k) = "Greater")
    IN before \o << <<k, v>> >> \o after

RECURSIVE normalize_value(_, _)
RECURSIVE normalize_object(_, _)
RECURSIVE normalize_array(_, _)

normalize_value_shallow(self, v) ==
    IF v.t = "obj" THEN normalize_object(self, v.kv)
    ELSE v

normalize_value(self, v) ==
    IF v.t = "obj" THEN normalize_object(self, v.kv)
    ELSE IF v.t = "arr" THEN normalize_array(self, v.el)
    ELSE v

normalize_object_as_inserted(self, map) ==
    LET kept == SelectSeq(map, LAMBDA e : e[1] \notin self.config.excluded_fields)
    IN Obj([i \in 1..Len(kept) |-> <<kept[i][1], normalize_value(self, kept[i][2])>>])
normalize_object(self, map) ==
    LET sorted[i \in 0..Len(map)] ==
            IF i = 0 THEN <<>>
            ELSE IF map[i][1] \in self.config.excluded_fields THEN sorted[i - 1]
            ELSE btree_insert(sorted[i - 1], map[i][1], normalize_value(self, map[i][2]))
    IN Obj(sorted[Len(map)])

normalize_array(self, arr) ==
    LET normalized == [i \in 1..Len(arr) |-> normalize_value(self, arr[i])]
    IN IF self.config.sort_arrays /\ normalized # <<>>
          /\ \A i \in 1..Len(normalized) : is_object(normalized[i])
       THEN Arr(sort_by(self.sort_impl, normalized,
                        [i \in 1..Len(arr) |-> [j \in 1..Len(arr) |->
                            is_less(self, normalized[i], normalized[j])]]))
       ELSE Arr(normalized)

normalize(self, v) == normalize_value(self, v)

(***************************************************************************)
(* ResourceNormalizer                                                      *)
(***************************************************************************)
\* Value::as_str of a.get("name"), or "": the key the closures of normalize_type sort by
name_or_empty(a) ==
    LET n == get(a, "name")
    IN IF n # None /\ n[1].t = "str" THEN n[1].s ELSE ""

\* Map::insert on a key the map holds: the value is replaced where it is
replace_entry(kv, k, v) == [i \in 1..Len(kv) |-> IF kv[i][1] = k THEN <<k, v>> ELSE kv[i]]

\* one of the two blocks of normalize_type: sort the array under key by name, if there is one
sort_member_by_name(self, v, key) ==
    LET member == get(v, key)
    IN IF member # None /\ member[1].t = "arr"
       THEN LET el == member[1].el
                sorted == sort_by(self.sort_impl, el,
                                  [i \in 1..Len(el) |-> [j \in 1..Len(el) |->
                                      str_cmp(name_or_empty(el[i]), name_or_empty(el[j])) = "Less"]])
            IN Obj(replace_entry(v.kv, key, Arr(sorted)))
       ELSE v

normalize_type(self, v) ==
    LET normalized == normalize(self, v)
    IN IF normalized.t = "obj"
       THEN sort_member_by_name(self, sort_member_by_name(self, normalized, "properties"), "indexes")
       ELSE normalized

normalize_resource(self, resource_type, v) ==
    IF resource_type = "types" THEN normalize_type(self, v)
    ELSE IF resource_type \in {"procedures", "rules"} THEN v
    ELSE normalize(self, v)

(***************************************************************************)
(* Files.  A text is the value it parses to, key order kept, together with *)
(* its layout ("compact": no white space; "pretty": serde_json's two-space  *)
(* indentation, nothing after the last token; "pretty_nl": the same followed *)
(* by one newline), or a text that is not JSON.  A path holds no file, a file   *)
(* that read_to_string cannot read (no permission, not UTF-8), or a text.  *)
(***************************************************************************)
JsonText(v, fmt) == [json |-> TRUE, v |-> v, fmt |-> fmt]
BadText(n) == [json |-> FALSE, v |-> Num(n), fmt |-> "raw"]

\* what a file holds after File::create, and after a write_all that failed part-way
EmptyText == [json |-> FALSE, v |-> Null, fmt |-> "empty"]
PrefixOf(text) == [json |-> FALSE, v |-> text.v, fmt |-> "prefix"]

Absent == [st |-> "absent"]
Unreadable == [st |-> "unreadable"]
Present(text) == [st |-> "file", text |-> text]

\* Result<T>: Ok(x) or Err(e)
Ok(x) == [ok |-> TRUE, val |-> x]
Err(e) == [ok |-> FALSE, err |-> e]

\* fs::read_to_string(path).map_err(|_| FileReadFailed { path })
read_to_string(f, path) ==
    IF f.st = "file" THEN Ok(f.text) ELSE Err([kind |-> "FileReadFailed", path |-> path])

\* serde_json::from_str
from_str(text) == IF text.json THEN Ok(text.v) ELSE Err([kind |-> "InvalidJson"])

\* serde_json::to_string_pretty
to_string_pretty(v) == JsonText(v, "pretty")

\* fs::write(path, text).map_err(|_| FileWriteFailed { path }): the file afterwards and
\* the value returned.  The write succeeds, or File::create fails, or write_all fails
\* with nothing or a part of the text written
write(f, path, text) ==
    {[file |-> Present(text), ret |-> Ok(None)]}
    \union {[file |-> g, ret |-> Err([kind |-> "FileWriteFailed", path |-> path])] :
                g \in {f, Present(EmptyText), Present(PrefixOf(text))}}

\* Normalizer::normalize_file(path) on a path holding f
normalize_file(self, f, path) ==
    LET text == read_to_string(f, path)
        parsed == from_str(text.val)
    IN IF ~text.ok THEN {[file |-> f, ret |-> text]}
       ELSE IF ~parsed.ok THEN {[file |-> f, ret |-> parsed]}
       ELSE write(f, path, to_string_pretty(normalize(self, parsed.val)))

\* ResourceNormalizer::normalize_resource_file(path, resource_type) on a path holding f
normalize_resource_file(self, f, path, resource_type) ==
    LET text == read_to_string(f, path)
        parsed == from_str(text.val)
    IN IF ~text.ok THEN {[file |-> f, ret |-> text]}
       ELSE IF ~parsed.ok THEN {[file |-> f, ret |-> parsed]}
       ELSE write(f, path, to_string_pretty(normalize_resource(self, resource_type, parsed.val)))

(***************************************************************************)
(* Directory walks.  A tree is its root, what the root is, and the         *)
(* directories under the root by name; a directory holds .json files by    *)
(* stem, other files, and at most one subdirectory, "nested".  A place in  *)
(* the tree is the sequence of names leading to it from the root.          *)
(***************************************************************************)
resource_dirs ==
    <<"aicomponents", "catalogs", "clients", "collaborationtypes", "configurations",
      "debugconfigs", "deployconfigs", "environments", "procedures", "projects", "rules",
      "scheduledevents", "services", "sources", "subscriptions", "systemmodels", "topics",
      "types", "data", "documents">>

\* the directory record at a place below the root
dir_at(tree, place) ==
    IF Len(place) = 1 THEN tree.dirs[place[1]] ELSE tree.dirs[place[1]].sub[1]

\* Path::is_dir of root.join(name)
is_dir(tree, name) ==
    tree.kind = "dir" /\ name \in DOMAIN tree.dirs /\ tree.dirs[name].is_dir

\* the file at a place, and the tree with another file there
file_in(tree, place) == dir_at(tree, SubSeq(place, 1, Len(place) - 1)).files[place[Len(place)]]

put_file(tree, place, f) ==
    IF Len(place) = 2
    THEN [tree EXCEPT !.dirs[place[1]].files[place[2]] = f]
    ELSE [tree EXCEPT !.dirs[place[1]].sub[1].files[place[3]] = f]

\* path.display(): the root followed by the names
display(tree, place) == <<tree.root>> \o place

\* fs::read_dir(dir).map_err(|e| Other(e.to_string())) and the entries it yields
read_dir(tree, place) ==
    IF place = <<>>
    THEN Ok({[kind |-> "dir", name |-> d] : d \in {n \in DOMAIN tree.dirs : tree.dirs[n].is_dir}})
    ELSE LET d == dir_at(tree, place)
         IN IF ~d.readable THEN Err([kind |-> "Other", path |-> display(tree, place)])
            ELSE Ok({[kind |-> "json", name |-> n] : n \in {m \in DOMAIN d.files : d.files[m].st # "absent"}}
                    \union {[kind |-> "other", name |-> n] : n \in d.others}
                    \union {[kind |-> "dir", name |-> "nested"] : x \in {y \in {0} : d.sub # <<>>}})

\* one directory being listed: its place, the resource type it is normalized as, and
\* the entries the for loop has still to take
Frame(place, resource_type, left) == [dir |-> place, resource_type |-> resource_type, left |-> left]

\* match self.normalize_file(&path) { Ok(()) => .., Err(e) => .. }
count_file_first_error(st, path, ret) ==
    IF ret.ok THEN [st EXCEPT !.files_processed = @ + 1]
    ELSE [st EXCEPT !.errors = @ + 1,
                    !.error_files = IF @ = <<>> THEN <<<<path, ret.err>>>> ELSE @]
count_file(st, path, ret) ==
    IF ret.ok THEN [st EXCEPT !.files_processed = @ + 1]
    ELSE [st EXCEPT !.errors = @ + 1, !.error_files = Append(@, <<path, ret.err>>)]

(***************************************************************************)
(* commands/diff.rs                                                        *)
(***************************************************************************)
known_types ==
    {"types", "procedures", "rules", "sources", "services", "topics",
     "collaborationtypes", "aicomponents", "catalogs", "clients", "configurations",
     "debugconfigs", "deployconfigs", "environments", "projects", "scheduledevents",
     "subscriptions", "systemmodels"}

\* the orders in which a hash set or a directory listing may hand out its members
Orderings(S) ==
    {o \in [1..Cardinality(S) -> S] : \A i, j \in 1..Cardinality(S) : o[i] = o[j] => i = j}

\* the entries of the root that are directories: read_dir(dir), entry.path().is_dir();
\* a root that cannot be listed gives none (if let Ok(entries))
subdirectories(tree) ==
    IF tree.kind = "dir" THEN {d \in DOMAIN tree.dirs : tree.dirs[d].is_dir} ELSE {}

\* Vec<String>::sort
sort_strings(impl, S) ==
    LET unsorted == CHOOSE o \in Orderings(S) : TRUE
    IN sort_by(impl, unsorted,
               [i \in 1..Len(unsorted) |-> [j \in 1..Len(unsorted) |->
                   str_cmp(unsorted[i], unsorted[j]) = "Less"]])

get_resource_types_any_dir(impl, src, tgt, filter) ==
    LET types == subdirectories(src) \union subdirectories(tgt)
        kept == IF filter = <<>> THEN types
                ELSE {t \in types : \E i \in 1..Len(filter) : str_contains(t, filter[i])}
    IN sort_strings(impl, kept)
get_resource_types(impl, src, tgt, filter) ==
    LET types == (subdirectories(src) \union subdirectories(tgt)) \cap known_types
        kept == IF filter = <<>> THEN types
                ELSE {t \in types : \E i \in 1..Len(filter) : str_contains(t, filter[i])}
    IN sort_strings(impl, kept)

\* the keys of get_json_files(root/resource_type): the stems of the .json files in it
get_json_files(tree, resource_type) ==
    IF tree.kind = "dir" /\ resource_type \in DOMAIN tree.dirs /\ tree.dirs[resource_type].is_dir
    THEN {n \in DOMAIN tree.dirs[resource_type].files :
              tree.dirs[resource_type].files[n].st # "absent"}
    ELSE {}

file_at(tree, resource_type, name) == tree.dirs[resource_type].files[name]

path_of(tree, resource_type, name) == <<tree.root, resource_type, name>>

\* the text of the unified diff or of the "+n -m" summary, fixed by the two contents
diff_text_of(source_content, target_content, full) ==
    [full |-> full, from |-> source_content, to |-> target_content]

compare_files_skip_unreadable(src, tgt, resource_type, name, full) ==
    IF file_at(src, resource_type, name).st = "file" /\ file_at(tgt, resource_type, name).st = "file"
       /\ file_at(src, resource_type, name).text # file_at(tgt, resource_type, name).text
    THEN Ok(Some(diff_text_of(file_at(src, resource_type, name).text,
                              file_at(tgt, resource_type, name).text, full)))
    ELSE Ok(None)
compare_files(src, tgt, resource_type, name, full) ==
    LET source_content == read_to_string(file_at(src, resource_type, name),
                                         path_of(src, resource_type, name))
        target_content == read_to_string(file_at(tgt, resource_type, name),
                                         path_of(tgt, resource_type, name))
    IN IF ~source_content.ok THEN source_content
       ELSE IF ~target_content.ok THEN target_content
       ELSE IF source_content.val = target_content.val THEN Ok(None)
       ELSE Ok(Some(diff_text_of(source_content.val, target_content.val, full)))

ResourceDiff_as_modified(resource_type, name, change, diff_text) ==
    [resource_type |-> resource_type, name |-> name, change |-> "Modified", diff_text |-> diff_text]
ResourceDiff(resource_type, name, change, diff_text) ==
    [resource_type |-> resource_type, name |-> name, change |-> change, diff_text |-> diff_text]

\* target_names.difference(&source_names)
added_names_all(source_names, target_names) == target_names
added_names(source_names, target_names) == target_names \ source_names

\* source_names.difference(&target_names)
removed_names_copied(source_names, target_names) == target_names \ source_names
removed_names(source_names, target_names) == source_names \ target_names

\* source_names.intersection(&target_names)
common_names(source_names, target_names) == source_names \cap target_names

\* (&a.resource_type, &a.name).cmp(&(&b.resource_type, &b.name))
key_cmp(a, b) ==
    IF str_cmp(a.resource_type, b.resource_type) # "Equal"
    THEN str_cmp(a.resource_type, b.resource_type)
    ELSE str_cmp(a.name, b.name)

sort_diffs_as_collected(impl, diffs) == diffs
sort_diffs(impl, diffs) ==
    sort_by(impl, diffs,
            [i \in 1..Len(diffs) |-> [j \in 1..Len(diffs) |-> key_cmp(diffs[i], diffs[j]) = "Less"]])

total_changes(r) == Len(r.added) + Len(r.removed) + Len(r.modified)
has_changes_added(r) == Len(r.added) + Len(r.modified) > 0
has_changes(r) == total_changes(r) > 0

Line(kind, item) == [kind |-> kind, item |-> item]

\* one section of the listing: its heading with the count, then a line per entry
Section(kind, items) ==
    IF items # <<>>
    THEN <<Line("count", Len(items))>> \o [i \in 1..Len(items) |-> Line(kind, items[i])]
    ELSE <<>>

\* the lines display_diff_results prints
display_diff_results(r) ==
    IF ~has_changes(r) THEN <<Line("none", 0)>>
    ELSE <<Line("found", total_changes(r))>>
         \o Section("added", r.added)
         \o Section("removed", r.removed)
         \o Section("modified", r.modified)
         \o Section("error", r.errors)

(***************************************************************************)
(* Inputs of normalize                                                     *)
(***************************************************************************)
MaxLen == 4

\* Policies: the default, the default with array sorting off, and a custom one
Configs ==
    {DefaultConfig,
     [DefaultConfig EXCEPT !.sort_arrays = FALSE],
     [sort_keys |-> FALSE, sort_arrays |-> TRUE,
      excluded_fields |-> {"custom_field"}, array_sort_fields |-> <<"id", "name">>]}

\* An array element: an object that records its input position under "pos" and
\* carries an optional name (a string or a number) and an optional id
ElemKinds ==
    {<<None, None>>, <<None, Some(Num(0))>>,
     <<Some(Str("a")), None>>, <<Some(Str("a")), Some(Num(0))>>,
     <<Some(Str("b")), Some(Num(0))>>, <<Some(Num(1)), Some(Num(0))>>}

Entry(k, opt) == IF opt = None THEN <<>> ELSE << <<k, opt[1]>> >>

Elem(i, kind) == Obj(<< <<"pos", Num(i)>> >> \o Entry("name", kind[1]) \o Entry("id", kind[2]))

TaggedArrays ==
    UNION {{Arr([i \in 1..n |-> Elem(i, f[i])]) : f \in [1..n -> ElemKinds]} : n \in 0..MaxLen}

\* Nested values over two leaves and the keys zebra, _id and custom_field
Leaves == {Num(1), Str("a")}
NestKeys == {"zebra", "_id", "custom_field"}

ObjectsOver(S) ==
    {Obj(<<>>)}
    \union {Obj(<< <<k, v>> >>) : k \in NestKeys, v \in S}
    \union {Obj(<< <<k[1], v>>, <<k[2], w>> >>) :
                k \in {p \in NestKeys \X NestKeys : p[1] # p[2]}, v \in S, w \in Leaves}

ArraysOver(S) == {Arr(<<>>)} \union {Arr(<<v>>) : v \in S} \union {Arr(<<v, w>>) : v, w \in S}

Depth1 == Leaves \union ObjectsOver(Leaves) \union ArraysOver(Leaves)
Depth2 == ObjectsOver(Depth1) \union ArraysOver(ObjectsOver(Leaves) \union {Num(1)})
Depth3 == {Obj(<< <<"zebra", a>>, <<"apple", Null>> >>) : a \in ArraysOver(ObjectsOver(Leaves))}

\* Arrays of objects that have neither name nor id, in every order of their distinct
\* _id; zebra repeats the _id
IdArrays ==
    UNION {{Arr([i \in 1..n |-> Obj(<< <<"_id", Num(o[i])>>, <<"zebra", Num(o[i])>> >>)]) :
                o \in Orderings(1..n)} : n \in 2..3}

InputValues ==
    TaggedArrays \union {Null, Bool(TRUE)} \union Depth1 \union Depth2 \union Depth3
    \union IdArrays

(***************************************************************************)
(* The three parts of the model start idle and are run by their own        *)
(* specification.                                                          *)
(***************************************************************************)
NoReport == [success |-> TRUE, added |-> <<>>, removed |-> <<>>, modified |-> <<>>, errors |-> <<>>]
NoTree == [root |-> "", kind |-> "missing", dirs |-> <<>>]
NoStats == [files_processed |-> 0, errors |-> 0, error_files |-> <<>>]

NormIdle ==
    /\ config = DefaultConfig /\ sort_impl = "shift_left"
    /\ value = Null /\ result = Null /\ first = Null /\ npc = "idle"

DiffIdle ==
    /\ source_dir = NoTree /\ target_dir = NoTree
    /\ filter_types = <<>> /\ full_diff = FALSE /\ resource_types = <<>>
    /\ added = <<>> /\ removed = <<>> /\ modified = <<>> /\ errors = <<>>
    /\ report = NoReport /\ printed = <<>> /\ prev_report = NoReport
    /\ swapped = FALSE /\ dpc = "idle"

FileIdle ==
    /\ file = [st |-> "absent"] /\ original = [st |-> "absent"] /\ method = ""
    /\ content = <<>> /\ output = <<>> /\ outcome = <<>> /\ fpc = "idle"

TreeIdle ==
    /\ op = "" /\ exported = NoTree /\ export_dir = NoTree
    /\ resource_dirs_left = <<>> /\ walk = <<>> /\ stats = NoStats
    /\ walked = [ok |-> TRUE, val |-> NoStats] /\ op_result = [success |-> TRUE]
    /\ tpc = "idle"

PushIdle ==
    /\ push_args = [directory |-> "missing", yes |-> FALSE, dry_run |-> FALSE]
    /\ output_format = "Text" /\ changes = <<>> /\ calls = <<>>
    /\ sync_result = <<>> /\ ppc = "idle"

(***************************************************************************)
(* Normalizer::normalize, called on a value and again on its own result    *)
(***************************************************************************)
self == Normalizer(config, sort_impl)

NormInit ==
    /\ config \in Configs
    /\ sort_impl \in SortImpls
    /\ value \in InputValues
    /\ result = Null /\ first = Null
    /\ npc = "start"
    /\ DiffIdle /\ FileIdle /\ TreeIdle /\ PushIdle

Normalize ==
    /\ npc = "start"
    /\ result' = normalize(self, value)
    /\ npc' = "once"
    /\ UNCHANGED <<config, sort_impl, value, first, diff_vars, file_vars, tree_vars, push_vars>>

NormalizeAgain ==
    /\ npc = "once"
    /\ first' = result
    /\ result' = normalize(self, result)
    /\ npc' = "twice"
    /\ UNCHANGED <<config, sort_impl, value, diff_vars, file_vars, tree_vars, push_vars>>

NormNext == Normalize \/ NormalizeAgain

SpecNorm == NormInit /\ [][NormNext]_vars

(***************************************************************************)
(* Inputs of compare_directories: two roots with the directories types,    *)
(* rules and misc (not a known type), holding the files Foo.json and       *)
(* Bar.json                                                                *)
(***************************************************************************)
\* {"name":"a","id":0}; the same entries in another order with a volatile field;
\* another object; and a text that is not JSON
TextA == JsonText(Obj(<< <<"name", Str("a")>>, <<"id", Num(0)>> >>), "pretty")
TextB == JsonText(Obj(<< <<"id", Num(0)>>, <<"ars_modifiedAt", Num(1)>>, <<"name", Str("a")>> >>), "pretty")
TextC == JsonText(Obj(<< <<"name", Str("b")>> >>), "pretty")
TextBad == BadText(0)

\* the file names in use: the first MaxFiles of Foo, Bar, Baz
MaxFiles == 2
FileNames == {<<"Foo", "Bar", "Baz">>[i] : i \in 1..MaxFiles}

\* what a file of a types directory may be
StatesOf(n) ==
    IF n = "Foo" THEN {Absent, Unreadable, Present(TextA), Present(TextB), Present(TextBad)}
    ELSE IF n = "Bar" THEN {Absent, Present(TextA), Present(TextC)}
    ELSE {Absent, Present(TextA)}

Dir(files) == [is_dir |-> TRUE, files |-> files]
OnlyFoo(foo) == [n \in FileNames |-> IF n = "Foo" THEN foo ELSE Absent]
NoDir == [is_dir |-> FALSE, files |-> OnlyFoo(Absent)]

TypesDirs ==
    {NoDir} \union
    {Dir(f) : f \in {g \in [FileNames -> UNION {StatesOf(n) : n \in FileNames}] :
                         \A n \in FileNames : g[n] \in StatesOf(n)}}
FooAndBar(f) == [n \in FileNames |-> IF n \in {"Foo", "Bar"} THEN f ELSE Absent]
RulesDirs == {NoDir, Dir(OnlyFoo(Present(TextA))), Dir(FooAndBar(Unreadable))}
MiscDirs == {NoDir, Dir(OnlyFoo(Present(TextA)))}

\* a root that is a directory, with what it holds; a root that is a plain file;
\* a root that does not exist
Trees(root) ==
    {[root |-> root, kind |-> "dir", dirs |-> ("types" :> t) @@ ("rules" :> r) @@ ("misc" :> m)] :
        t \in TypesDirs, r \in RulesDirs, m \in MiscDirs}
    \union {[root |-> root, kind |-> k,
             dirs |-> ("types" :> NoDir) @@ ("rules" :> NoDir) @@ ("misc" :> NoDir)] :
                k \in {"file", "missing"}}

\* args.resource and args.full
DiffArgs ==
    {<< <<>>, FALSE >>, << <<>>, TRUE >>, << <<"type">>, FALSE >>, << <<"rule", "misc">>, TRUE >>}

(***************************************************************************)
(* compare_directories, display of its result, and a second run with the   *)
(* two roots exchanged                                                     *)
(***************************************************************************)
DiffInit ==
    /\ source_dir \in Trees("A")
    /\ target_dir \in Trees("B")
    /\ \E args \in DiffArgs : filter_types = args[1] /\ full_diff = args[2]
    /\ resource_types = <<>>
    /\ added = <<>> /\ removed = <<>> /\ modified = <<>> /\ errors = <<>>
    /\ report = NoReport /\ printed = <<>> /\ prev_report = NoReport
    /\ swapped = FALSE /\ dpc = "start"
    /\ NormIdle /\ FileIdle /\ TreeIdle /\ PushIdle

GetResourceTypes ==
    /\ dpc = "start"
    /\ resource_types' = get_resource_types(sort_impl, source_dir, target_dir, filter_types)
    /\ added' = <<>> /\ removed' = <<>> /\ modified' = <<>> /\ errors' = <<>>
    /\ dpc' = "loop"
    /\ UNCHANGED <<source_dir, target_dir, filter_types, full_diff, report, printed,
                   prev_report, swapped, norm_vars, file_vars, tree_vars, push_vars>>

\* what the loop over the common names pushes, the names taken in the given order
modified_pushed(resource_type, order) ==
    LET acc[i \in 0..Len(order)] ==
            IF i = 0 THEN <<>>
            ELSE LET r == compare_files(source_dir, target_dir, resource_type, order[i], full_diff)
                 IN IF r.ok /\ r.val # None
                    THEN Append(acc[i - 1], ResourceDiff(resource_type, order[i], "Modified", r.val))
                    ELSE acc[i - 1]
    IN acc[Len(order)]

errors_pushed(resource_type, order) ==
    LET acc[i \in 0..Len(order)] ==
            IF i = 0 THEN <<>>
            ELSE LET r == compare_files(source_dir, target_dir, resource_type, order[i], full_diff)
                 IN IF ~r.ok
                    THEN Append(acc[i - 1], [resource_type |-> resource_type, name |-> order[i],
                                             message |-> r.err])
                    ELSE acc[i - 1]
    IN acc[Len(order)]

\* one round of the loop over resource_types
CompareType ==
    /\ dpc = "loop" /\ resource_types # <<>>
    /\ LET resource_type == Head(resource_types)
           source_names == get_json_files(source_dir, resource_type)
           target_names == get_json_files(target_dir, resource_type)
       IN \E a \in Orderings(added_names(source_names, target_names)),
             r \in Orderings(removed_names(source_names, target_names)),
             c \in Orderings(common_names(source_names, target_names)) :
            /\ added' = added \o [i \in 1..Len(a) |-> ResourceDiff(resource_type, a[i], "Added", None)]
            /\ removed' = removed \o [i \in 1..Len(r) |-> ResourceDiff(resource_type, r[i], "Removed", None)]
            /\ modified' = modified \o modified_pushed(resource_type, c)
            /\ errors' = errors \o errors_pushed(resource_type, c)
    /\ resource_types' = Tail(resource_types)
    /\ UNCHANGED <<source_dir, target_dir, filter_types, full_diff, report, printed,
                   prev_report, swapped, dpc, norm_vars, file_vars, tree_vars, push_vars>>

\* the sorts after the loop and the DiffResult returned
ReturnResult ==
    /\ dpc = "loop" /\ resource_types = <<>>
    /\ report' = [success |-> errors = <<>>,
                  added |-> sort_diffs(sort_impl, added),
                  removed |-> sort_diffs(sort_impl, removed),
                  modified |-> sort_diffs(sort_impl, modified),
                  errors |-> errors]
    /\ dpc' = "done"
    /\ UNCHANGED <<source_dir, target_dir, filter_types, full_diff, resource_types,
                   added, removed, modified, errors, printed, prev_report, swapped,
                   norm_vars, file_vars, tree_vars, push_vars>>

\* run: output_format is not Json
DisplayResults ==
    /\ dpc = "done"
    /\ printed' = display_diff_results(report)
    /\ dpc' = "shown"
    /\ UNCHANGED <<source_dir, target_dir, filter_types, full_diff, resource_types,
                   added, removed, modified, errors, report, prev_report, swapped,
                   norm_vars, file_vars, tree_vars, push_vars>>

\* run: output_format is Json
PrintJson ==
    /\ dpc = "done"
    /\ printed' = <<Line("json", report)>>
    /\ dpc' = "shown"
    /\ UNCHANGED <<source_dir, target_dir, filter_types, full_diff, resource_types,
                   added, removed, modified, errors, report, prev_report, swapped,
                   norm_vars, file_vars, tree_vars, push_vars>>

\* the command is run again with source and target exchanged
RunSwapped ==
    /\ dpc = "shown" /\ ~swapped
    /\ source_dir' = target_dir /\ target_dir' = source_dir
    /\ prev_report' = report
    /\ swapped' = TRUE
    /\ printed' = <<>>
    /\ dpc' = "start"
    /\ UNCHANGED <<filter_types, full_diff, resource_types, added, removed, modified,
                   errors, report, norm_vars, file_vars, tree_vars, push_vars>>

DiffNext ==
    \/ GetResourceTypes \/ CompareType \/ ReturnResult
    \/ DisplayResults \/ PrintJson \/ RunSwapped

SpecDiff == DiffInit /\ [][DiffNext]_vars

(***************************************************************************)
(* Normalizer::normalize_file and ResourceNormalizer::normalize_resource_file *)
(* on one path.  fs::write creates the file, which empties an existing     *)
(* one, and then writes the bytes; either step can fail.                   *)
(***************************************************************************)
TextType ==
    JsonText(Obj(<< <<"properties", Arr(<<Obj(<< <<"name", Str("b")>> >>),
                                          Obj(<< <<"name", Str("a")>> >>)>>)>>,
                    <<"ars_version", Num(1)>> >>), "compact")

\* {"zebra":1,"apple":2}
TextZebra == JsonText(Obj(<< <<"zebra", Num(1)>>, <<"apple", Num(2)>> >>), "compact")

\* a type whose properties and indexes hold elements without a name, or with a name
\* that is no string
TextUnnamed ==
    JsonText(Obj(<< <<"properties", Arr(<<Obj(<< <<"name", Str("b")>> >>),
                                          Obj(<< <<"id", Num(0)>> >>),
                                          Obj(<< <<"name", Str("a")>> >>)>>)>>,
                    <<"indexes", Arr(<<Obj(<< <<"name", Str("a")>> >>),
                                       Obj(<< <<"name", Num(1)>> >>)>>)>> >>), "pretty")

FileStates ==
    {Absent, Unreadable} \union
    {Present(t) : t \in {TextA, TextB, TextC, TextBad, TextType, TextZebra, TextUnnamed,
                         JsonText(Num(1), "pretty"), JsonText(Num(1), "pretty_nl"),
                         JsonText(Arr(<<>>), "compact")}}

\* normalize_file, or the resource type normalize_resource_file is called with
Methods == {"normalize_file", "types", "rules", "sources"}

FileInit ==
    /\ file \in FileStates
    /\ original = file
    /\ method \in Methods
    /\ config \in Configs
    /\ sort_impl = "shift_left"
    /\ content = EmptyText /\ output = EmptyText
    /\ outcome = Ok(None)
    /\ fpc = "start"
    /\ value = Null /\ result = Null /\ first = Null /\ npc = "idle"
    /\ DiffIdle /\ TreeIdle /\ PushIdle

\* fs::read_to_string(path).map_err(..)?
ReadFile ==
    /\ fpc = "start"
    /\ LET r == read_to_string(file, <<"path">>)
       IN IF r.ok
          THEN content' = r.val /\ fpc' = "read" /\ UNCHANGED outcome
          ELSE outcome' = r /\ fpc' = "returned" /\ UNCHANGED content
    /\ UNCHANGED <<file, original, method, output, norm_vars, diff_vars, tree_vars, push_vars>>

\* normalize_str, or from_str, normalize_resource and to_string_pretty
Serialize ==
    /\ fpc = "read"
    /\ LET parsed == from_str(content)
       IN IF parsed.ok
          THEN /\ output' = to_string_pretty(
                                IF method = "normalize_file" THEN normalize(self, parsed.val)
                                ELSE normalize_resource(self, method, parsed.val))
               /\ fpc' = "serialized" /\ UNCHANGED outcome
          ELSE outcome' = parsed /\ fpc' = "returned" /\ UNCHANGED output
    /\ UNCHANGED <<file, original, method, content, norm_vars, diff_vars, tree_vars, push_vars>>

\* fs::write, first half: File::create fails, or leaves the file empty
CreateFile ==
    /\ fpc = "serialized"
    /\ \/ /\ outcome' = Err([kind |-> "FileWriteFailed", path |-> <<"path">>])
          /\ fpc' = "returned" /\ UNCHANGED file
       \/ /\ file' = Present(EmptyText)
          /\ fpc' = "opened" /\ UNCHANGED outcome
    /\ UNCHANGED <<original, method, content, output, norm_vars, diff_vars, tree_vars, push_vars>>

\* fs::write, second half: write_all writes everything, or fails after part of it
WriteAll ==
    /\ fpc = "opened"
    /\ \/ /\ file' = Present(output)
          /\ outcome' = Ok(None)
       \/ /\ file' \in {Present(EmptyText), Present(PrefixOf(output))}
          /\ outcome' = Err([kind |-> "FileWriteFailed", path |-> <<"path">>])
    /\ fpc' = "returned"
    /\ UNCHANGED <<original, method, content, output, norm_vars, diff_vars, tree_vars, push_vars>>

FileNext == ReadFile \/ Serialize \/ CreateFile \/ WriteAll

SpecFile == FileInit /\ [][FileNext]_vars

(***************************************************************************)
(* Normalizer::normalize_directory and                                     *)
(* ResourceNormalizer::normalize_export_directory walking a tree, and the  *)
(* commands that call normalize_export_directory on what they exported:    *)
(* export --normalize, sync pull, and diff with a profile as its source.   *)
(***************************************************************************)
Ops == {"normalize_directory", "export", "sync_pull", "diff"}

ExportDir(files, others, sub) ==
    [is_dir |-> TRUE, readable |-> TRUE, files |-> files, others |-> others, sub |-> sub]
Nested(readable, baz) ==
    [is_dir |-> TRUE, readable |-> readable, files |-> ("Baz" :> baz), others |-> {}, sub |-> <<>>]
NoExportDir ==
    [is_dir |-> FALSE, readable |-> FALSE, files |-> ("Foo" :> Absent), others |-> {}, sub |-> <<>>]

\* types/ holds Foo.json, Bar.json, notes.txt and nested/Baz.json, or some of them;
\* nested/ may be a directory that cannot be listed
ExportTypes ==
    {NoExportDir} \union
    {ExportDir(("Foo" :> f) @@ ("Bar" :> b), o, n) :
        f \in {Absent, Unreadable, Present(TextBad), Present(TextType)},
        b \in {Absent, Present(TextA)},
        o \in {{}, {"notes.txt"}},
        n \in {<<>>, <<Nested(TRUE, Present(TextC))>>, <<Nested(TRUE, Present(TextBad))>>,
               <<Nested(FALSE, Absent)>>}}
ExportRules == {NoExportDir, ExportDir(("Foo" :> Present(TextBad)), {}, <<>>)}
ExportMisc == {NoExportDir, ExportDir(("Foo" :> Present(TextB)), {}, <<>>)}

ExportTrees ==
    {[root |-> "E", kind |-> "dir", dirs |-> ("types" :> t) @@ ("rules" :> r) @@ ("misc" :> m)] :
        t \in ExportTypes, r \in ExportRules, m \in ExportMisc}
    \union {[root |-> "E", kind |-> k,
             dirs |-> ("types" :> NoExportDir) @@ ("rules" :> NoExportDir) @@ ("misc" :> NoExportDir)] :
                k \in {"file", "missing"}}

\* the directory the diff compares the export with
DiffTargets ==
    {t \in Trees("B") :
        /\ t.dirs["rules"] = NoDir /\ t.dirs["misc"] = NoDir
        /\ \/ t.dirs["types"] = NoDir
           \/ /\ t.dirs["types"].is_dir
              /\ t.dirs["types"].files["Foo"] = Present(TextA)
              /\ \A n \in FileNames \ {"Foo"} : t.dirs["types"].files[n] = Absent}

TreeInit ==
    /\ op \in Ops
    /\ exported \in ExportTrees
    /\ export_dir = exported
    /\ resource_dirs_left = <<>> /\ walk = <<>> /\ stats = NoStats
    /\ walked = Ok(NoStats) /\ op_result = [success |-> TRUE]
    /\ tpc = "start"
    /\ NormIdle /\ DiffIdle /\ FileIdle /\ PushIdle

\* Normalizer::normalize_directory up to the first read_dir
NormalizeDirectory ==
    /\ op = "normalize_directory" /\ tpc = "start"
    /\ stats' = NoStats
    /\ IF export_dir.kind # "dir"
       THEN /\ walked' = Err([kind |-> "Other", path |-> display(export_dir, <<>>)])
            /\ tpc' = "returned"
            /\ UNCHANGED walk
       ELSE /\ walk' = <<Frame(<<>>, "", read_dir(export_dir, <<>>).val)>>
            /\ tpc' = "walking"
            /\ UNCHANGED walked
    /\ UNCHANGED <<op, exported, export_dir, resource_dirs_left, op_result,
                   norm_vars, diff_vars, file_vars, push_vars>>

\* ResourceNormalizer::normalize_export_directory up to its loop
NormalizeExportDirectory ==
    /\ op # "normalize_directory" /\ tpc = "start"
    /\ stats' = NoStats
    /\ resource_dirs_left' = resource_dirs
    /\ tpc' = "walking"
    /\ UNCHANGED <<op, exported, export_dir, walk, walked, op_result,
                   norm_vars, diff_vars, file_vars, push_vars>>

\* one round of the loop over resource_dirs
NextResourceDir ==
    /\ tpc = "walking" /\ walk = <<>> /\ resource_dirs_left # <<>>
    /\ LET resource_type == Head(resource_dirs_left)
           entries == read_dir(export_dir, <<resource_type>>)
       IN IF ~is_dir(export_dir, resource_type) THEN UNCHANGED <<walk, walked, tpc>>
          ELSE IF entries.ok
          THEN /\ walk' = <<Frame(<<resource_type>>, resource_type, entries.val)>>
               /\ UNCHANGED <<walked, tpc>>
          ELSE /\ walked' = entries /\ tpc' = "returned"
               /\ UNCHANGED walk
    /\ resource_dirs_left' = Tail(resource_dirs_left)
    /\ UNCHANGED <<op, exported, export_dir, stats, op_result, norm_vars, diff_vars, file_vars, push_vars>>

\* one round of the loop over the entries of the innermost directory: a .json file is
\* normalized and counted, a directory is entered, anything else is passed over
VisitEntry ==
    /\ tpc = "walking" /\ walk # <<>>
    /\ LET top == walk[Len(walk)]
       IN \E e \in top.left :
            LET rest == [walk EXCEPT ![Len(walk)].left = @ \ {e}]
                place == Append(top.dir, e.name)
            IN CASE e.kind = "json" ->
                      \E o \in (IF op = "normalize_directory"
                                THEN normalize_file(self, file_in(export_dir, place),
                                                    display(export_dir, place))
                                ELSE normalize_resource_file(self, file_in(export_dir, place),
                                                             display(export_dir, place),
                                                             top.resource_type)) :
                          /\ export_dir' = put_file(export_dir, place, o.file)
                          /\ stats' = count_file(stats, display(export_dir, place), o.ret)
                          /\ walk' = rest
                          /\ UNCHANGED <<walked, tpc>>
                 [] e.kind = "dir" ->
                      LET entries == read_dir(export_dir, place)
                      IN IF entries.ok
                         THEN /\ walk' = Append(rest, Frame(place, top.resource_type, entries.val))
                              /\ UNCHANGED <<export_dir, stats, walked, tpc>>
                         ELSE /\ walked' = entries /\ tpc' = "returned"
                              /\ UNCHANGED <<export_dir, stats, walk>>
                 [] e.kind = "other" ->
                      /\ walk' = rest
                      /\ UNCHANGED <<export_dir, stats, walked, tpc>>
    /\ UNCHANGED <<op, exported, resource_dirs_left, op_result, norm_vars, diff_vars, file_vars, push_vars>>

\* the loop over the entries of the innermost directory ends
LeaveDir ==
    /\ tpc = "walking" /\ walk # <<>> /\ walk[Len(walk)].left = {}
    /\ walk' = SubSeq(walk, 1, Len(walk) - 1)
    /\ UNCHANGED <<op, exported, export_dir, resource_dirs_left, stats, walked, op_result, tpc,
                   norm_vars, diff_vars, file_vars, push_vars>>

\* Ok(stats)
ReturnStats ==
    /\ tpc = "walking" /\ walk = <<>> /\ resource_dirs_left = <<>>
    /\ walked' = Ok(stats)
    /\ tpc' = "returned"
    /\ UNCHANGED <<op, exported, export_dir, resource_dirs_left, walk, stats, op_result,
                   norm_vars, diff_vars, file_vars, push_vars>>

\* commands/export.rs run, args.normalize set, from the call's return on
ExportRun ==
    /\ op = "export" /\ tpc = "returned"
    /\ op_result' = IF ~walked.ok THEN walked
                    ELSE Ok([success |-> TRUE,
                             files_normalized |-> Some(walked.val.files_processed),
                             errors |-> <<>>])
    /\ tpc' = "done"
    /\ UNCHANGED <<op, exported, export_dir, resource_dirs_left, walk, stats, walked,
                   norm_vars, diff_vars, file_vars, push_vars>>

\* commands/sync.rs run_pull from the call's return on
RunPull ==
    /\ op = "sync_pull" /\ tpc = "returned"
    /\ op_result' = IF ~walked.ok THEN walked
                    ELSE Ok([success |-> TRUE,
                             files_processed |-> Some(walked.val.files_processed),
                             errors |-> <<>>])
    /\ tpc' = "done"
    /\ UNCHANGED <<op, exported, export_dir, resource_dirs_left, walk, stats, walked,
                   norm_vars, diff_vars, file_vars, push_vars>>

\* commands/diff.rs get_directory_for_source for a profile, from the call's return on:
\* the stats are dropped and run goes on to compare_directories
GetDirectoryForSource ==
    /\ op = "diff" /\ tpc = "returned"
    /\ IF ~walked.ok
       THEN /\ op_result' = walked
            /\ UNCHANGED diff_vars
       ELSE /\ source_dir' = export_dir
            /\ target_dir' \in DiffTargets
            /\ dpc' = "start"
            /\ UNCHANGED <<op_result, filter_types, full_diff, resource_types, added, removed,
                           modified, errors, report, printed, prev_report, swapped>>
    /\ tpc' = "done"
    /\ UNCHANGED <<op, exported, export_dir, resource_dirs_left, walk, stats, walked,
                   norm_vars, file_vars, push_vars>>

TreeNext ==
    \/ NormalizeDirectory \/ NormalizeExportDirectory
    \/ NextResourceDir \/ VisitEntry \/ LeaveDir \/ ReturnStats
    \/ ExportRun \/ RunPull \/ GetDirectoryForSource
    \/ GetResourceTypes \/ CompareType \/ ReturnResult \/ DisplayResults \/ PrintJson

SpecTree == TreeInit /\ [][TreeNext]_vars

(***************************************************************************)
(* commands/sync.rs run_push: import a local directory to the server.      *)
(* calls lists, in order, what the run asked of the server and of the      *)
(* terminal: "export", "diff", "confirm_yes" | "confirm_no" |              *)
(* "confirm_err" (the prompt and its answer), "import".                    *)
(***************************************************************************)
OutputFormats == {"Text", "Json", "Csv"}

SyncPushArgs == [directory : {"missing", "file", "dir"}, yes : BOOLEAN, dry_run : BOOLEAN]

\* what the profile store holds for the profile name
Profiles == {"missing", "no_auth", "ok"}

\* UnderlyingCli export / import: an error, or a process that exited with or without success
CliOutcomes == {"err", "failed", "success"}

\* SyncChanges::from(&DiffResult), or the error of diff::run
DiffOutcomes ==
    {Err("diff"),
     Ok([added |-> 0, removed |-> 0, modified |-> 0]),
     Ok([added |-> 1, removed |-> 0, modified |-> 2])}

SyncResult(success, operation, files_processed, ch, errs) ==
    [success |-> success, operation |-> operation, files_processed |-> files_processed,
     changes |-> ch, errors |-> errs]

PushInit ==
    /\ push_args \in SyncPushArgs
    /\ output_format \in OutputFormats
    /\ changes = None /\ calls = <<>> /\ sync_result = None
    /\ ppc = "start"
    /\ NormIdle /\ DiffIdle /\ FileIdle /\ TreeIdle

\* run_push, from its entry to the checks of args.directory
CheckDirectory ==
    /\ ppc = "start"
    /\ \E profile \in Profiles :
        IF profile = "missing"
        THEN sync_result' = Some(Err("ProfileNotFound")) /\ ppc' = "returned"
        ELSE IF profile = "no_auth"
        THEN sync_result' = Some(Err("ProfileInvalid")) /\ ppc' = "returned"
        ELSE IF push_args.directory = "missing"
        THEN sync_result' = Some(Err("FileReadFailed")) /\ ppc' = "returned"
        ELSE IF push_args.directory # "dir"
        THEN sync_result' = Some(Err("Other")) /\ ppc' = "returned"
        ELSE sync_result' = sync_result /\ ppc' = "checked"
    /\ UNCHANGED <<push_args, output_format, changes, calls,
                   norm_vars, diff_vars, file_vars, tree_vars>>

\* run_push: the export of the server's state to a temporary directory
ExportServerState ==
    /\ ppc = "checked"
    /\ calls' = Append(calls, "export")
    /\ \E export_result \in CliOutcomes :
        IF export_result = "err"
        THEN sync_result' = Some(Err("CliExecutionFailed")) /\ ppc' = "returned"
        ELSE sync_result' = sync_result /\ ppc' = "exported"
    /\ UNCHANGED <<push_args, output_format, changes,
                   norm_vars, diff_vars, file_vars, tree_vars>>

\* run_push: diff::run on the temporary directory and args.directory, printed as text
DiffPreview ==
    /\ ppc = "exported"
    /\ calls' = Append(calls, "diff")
    /\ \E diff_result \in DiffOutcomes :
        changes' = IF diff_result.ok THEN Some(diff_result.val) ELSE None
    /\ ppc' = "previewed"
    /\ UNCHANGED <<push_args, output_format, sync_result,
                   norm_vars, diff_vars, file_vars, tree_vars>>

\* run_push: args.dry_run
DryRun ==
    /\ ppc = "previewed"
    /\ push_args.dry_run
    /\ sync_result' = Some(Ok(SyncResult(TRUE, "push (dry-run)", None, changes, <<>>)))
    /\ ppc' = "returned"
    /\ UNCHANGED <<push_args, output_format, changes, calls,
                   norm_vars, diff_vars, file_vars, tree_vars>>

\* run_push: the confirmation
Confirmation ==
    /\ ppc = "previewed"
    /\ ~push_args.dry_run
    /\ IF ~push_args.yes /\ output_format # "Json"
       THEN \E answer \in {"err", "no", "yes"} :
            /\ calls' = Append(calls, "confirm_" \o answer)
            /\ IF answer = "err"
               THEN sync_result' = Some(Err("Other")) /\ ppc' = "returned"
               ELSE IF answer = "no"
               THEN /\ sync_result' = Some(Ok(SyncResult(FALSE, "push", None, changes,
                                                         <<"Cancelled by user">>)))
                    /\ ppc' = "returned"
               ELSE sync_result' = sync_result /\ ppc' = "confirmed"
       ELSE calls' = calls /\ sync_result' = sync_result /\ ppc' = "confirmed"
    /\ UNCHANGED <<push_args, output_format, changes,
                   norm_vars, diff_vars, file_vars, tree_vars>>

\* run_push: the import, to the return
Import ==
    /\ ppc = "confirmed"
    /\ calls' = Append(calls, "import")
    /\ \E import_result \in CliOutcomes :
        sync_result' =
            IF import_result = "err" THEN Some(Err("CliExecutionFailed"))
            ELSE IF import_result = "failed"
            THEN Some(Ok(SyncResult(FALSE, "push", None, changes, <<"stderr">>)))
            ELSE Some(Ok(SyncResult(TRUE, "push", Some(1), changes, <<>>)))
    /\ ppc' = "returned"
    /\ UNCHANGED <<push_args, output_format, changes,
                   norm_vars, diff_vars, file_vars, tree_vars>>

PushNext ==
    \/ CheckDirectory
    \/ ExportServerState
    \/ DiffPreview
    \/ DryRun
    \/ Confirmation
    \/ Import

SpecPush == PushInit /\ [][PushNext]_vars

(***************************************************************************)
(* Claims about normalize                                                  *)
(***************************************************************************)
\* C1: normalize is idempotent: normalizing the result of normalize returns that
\* result again, key order and element order included.
C1_Idempotent == npc = "twice" => result = first

\* C1 witness: a second call ran on a result whose elements the first call reordered
C1_Witness ==
    /\ npc = "twice" /\ value.t = "arr" /\ Len(value.el) >= 3
    /\ config.sort_arrays
    /\ first # value /\ \E i \in 1..Len(first.el) : get(first.el[i], "pos") # Some(Num(i))

\* the number of entries with key k in v, at any depth, not counting what lies
\* under an entry whose key is in skip
RECURSIVE CountKey(_, _, _)
CountKey(k, v, skip) ==
    IF v.t = "obj"
    THEN LET n[i \in 0..Len(v.kv)] ==
                 IF i = 0 THEN 0
                 ELSE IF v.kv[i][1] \in skip THEN n[i - 1]
                 ELSE n[i - 1] + (IF v.kv[i][1] = k THEN 1 ELSE 0) + CountKey(k, v.kv[i][2], skip)
         IN n[Len(v.kv)]
    ELSE IF v.t = "arr"
    THEN LET n[i \in 0..Len(v.el)] ==
                 IF i = 0 THEN 0 ELSE n[i - 1] + CountKey(k, v.el[i], skip)
         IN n[Len(v.el)]
    ELSE 0

AllKeys == {"pos", "name", "id", "zebra", "_id", "custom_field", "apple"}

\* C2: no object of normalize(v), at any depth, has an excluded key, and every
\* entry whose key is not excluded (and that is not inside an excluded entry) is kept.
C2_ExclusionAtEveryDepth ==
    npc = "once" =>
        \A k \in AllKeys :
            IF k \in config.excluded_fields
            THEN CountKey(k, result, {}) = 0
            ELSE CountKey(k, result, {}) = CountKey(k, value, config.excluded_fields)

\* C2 witness: an excluded key sat in an object inside an array inside an object
C2_Witness ==
    /\ npc = "once" /\ value.t = "obj" /\ Len(value.kv) = 2
    /\ value.kv[1][2].t = "arr" /\ Len(value.kv[1][2].el) = 2
    /\ value.kv[1][2].el[2].t = "obj"
    /\ Keys(value.kv[1][2].el[2]) \cap config.excluded_fields # {}
    /\ Keys(value.kv[1][2].el[2]) \ config.excluded_fields # {}

\* the place in the array out of the element that was at place i of the input
PlaceOf(out, i) == CHOOSE p \in 1..Len(out.el) : get(out.el[p], "pos") = Some(Num(i))

IsTaggedArray(v) == v.t = "arr" /\ \A i \in 1..Len(v.el) : get(v.el[i], "pos") = Some(Num(i))

EqualOnSortFields(a, b) ==
    \A i \in 1..Len(config.array_sort_fields) :
        get(a, config.array_sort_fields[i]) = get(b, config.array_sort_fields[i])

\* C7: with sort_arrays on, two elements of an array of objects that are equal on
\* every sort field keep their input order in the normalized array.
C7_Stable ==
    (npc = "once" /\ config.sort_arrays /\ IsTaggedArray(value)) =>
        \A i, j \in 1..Len(value.el) :
            (i < j /\ EqualOnSortFields(value.el[i], value.el[j]))
                => PlaceOf(result, i) < PlaceOf(result, j)

\* C7 witness: two elements equal on the sort fields, with an element between them
\* in the input that the sort moved in front of both
C7_Witness ==
    /\ npc = "once" /\ config.sort_arrays /\ IsTaggedArray(value) /\ Len(value.el) >= 3
    /\ EqualOnSortFields(value.el[1], value.el[3])
    /\ get(value.el[1], "name") # None
    /\ PlaceOf(result, 2) = 1

\* a has, and b lacks, the first sort field on which the two are compared
HasWhereLacks(a, b) ==
    \E k \in 1..Len(config.array_sort_fields) :
        /\ get(a, config.array_sort_fields[k]) # None
        /\ get(b, config.array_sort_fields[k]) = None
        /\ \A m \in 1..(k - 1) :
               get(a, config.array_sort_fields[m]) = get(b, config.array_sort_fields[m])

\* C8: in a sorted array of objects, an element that lacks the first sort field on
\* which it is compared with another element comes after that element.
C8_AbsentSortsLast ==
    (npc = "once" /\ config.sort_arrays /\ IsTaggedArray(value)) =>
        \A p, q \in 1..Len(result.el) :
            HasWhereLacks(result.el[p], result.el[q]) => p < q

\* every object of out has the keys of the object of v it comes from, the excluded
\* ones left out, in the order they have in v
RECURSIVE KeepsKeyOrder(_, _)
KeepsKeyOrder(v, out) ==
    IF v.t = "obj"
    THEN LET kept == SelectSeq(v.kv, LAMBDA e : e[1] \notin config.excluded_fields)
         IN /\ out.t = "obj" /\ Len(out.kv) = Len(kept)
            /\ \A i \in 1..Len(kept) :
                   out.kv[i][1] = kept[i][1] /\ KeepsKeyOrder(kept[i][2], out.kv[i][2])
    ELSE IF v.t = "arr"
    THEN /\ out.t = "arr" /\ Len(out.el) = Len(v.el)
         /\ \E o \in Orderings(1..Len(v.el)) :
                \A i \in 1..Len(v.el) : KeepsKeyOrder(v.el[o[i]], out.el[i])
    ELSE TRUE

\* C17: with sort_keys off, every object of normalize(v) keeps its non-excluded entries
\* in their input order; keys are put in ascending order only when sort_keys is on.
C17_KeyOrderFollowsSortKeys ==
    (npc = "once" /\ ~config.sort_keys) => KeepsKeyOrder(value, result)

\* every object of v, at any depth, has its keys in strictly ascending byte order
RECURSIVE KeysAscending(_)
KeysAscending(v) ==
    IF v.t = "obj"
    THEN /\ \A i \in 1..(Len(v.kv) - 1) : str_cmp(v.kv[i][1], v.kv[i + 1][1]) = "Less"
         /\ \A i \in 1..Len(v.kv) : KeysAscending(v.kv[i][2])
    ELSE IF v.t = "arr"
    THEN \A i \in 1..Len(v.el) : KeysAscending(v.el[i])
    ELSE TRUE

\* C18: with sort_keys on, every object of normalize(v), the root and the objects nested
\* in objects and arrays alike, lists its keys in strictly ascending order.
C18_KeysAscendingAtEveryDepth ==
    (npc = "once" /\ config.sort_keys) => KeysAscending(result)

\* C18 witness: the root object and an object inside an array inside it both had their
\* keys in descending order
C18_Witness ==
    /\ npc = "once" /\ config.sort_keys
    /\ value.t = "obj" /\ Len(value.kv) = 2
    /\ str_cmp(value.kv[1][1], value.kv[2][1]) = "Greater"
    /\ value.kv[1][2].t = "arr" /\ Len(value.kv[1][2].el) >= 1
    /\ LET inner == value.kv[1][2].el[1]
       IN /\ inner.t = "obj" /\ Len(inner.kv) = 2
          /\ Keys(inner) \cap config.excluded_fields = {}
          /\ str_cmp(inner.kv[1][1], inner.kv[2][1]) = "Greater"
    /\ result.kv[2][2].el[1].kv[1][1] = value.kv[1][2].el[1].kv[2][1]

\* every array of objects in v, at any depth, has no element that compares greater
\* than a later one
RECURSIVE ArraysOrdered(_)
ArraysOrdered(v) ==
    IF v.t = "obj"
    THEN \A i \in 1..Len(v.kv) : ArraysOrdered(v.kv[i][2])
    ELSE IF v.t = "arr"
    THEN /\ \A i \in 1..Len(v.el) : ArraysOrdered(v.el[i])
         /\ (\A i \in 1..Len(v.el) : is_object(v.el[i])) =>
                \A i, j \in 1..Len(v.el) :
                    i < j => compare_objects(self, v.el[i], v.el[j]) # "Greater"
    ELSE TRUE

\* C20: with sort_arrays on, in every array of objects of normalize(v) no element
\* compares greater than a later one on the sort fields taken in priority order, also
\* when the values at a sort field are of different types.
C20_SortedByComparison ==
    (npc = "once" /\ config.sort_arrays) => ArraysOrdered(result)

\* C28: under the default policy an array of objects that have neither name nor id
\* but distinct _id comes out of normalize in ascending order of the input _id (so
\* that two inputs differing only in the order of the elements give the same array).
C28_FallbackSortById ==
    (npc = "once" /\ config = DefaultConfig /\ value \in IdArrays) =>
        \A i, j \in 1..Len(result.el) :
            i < j => get(result.el[i], "zebra")[1].n < get(result.el[j], "zebra")[1].n

(***************************************************************************)
(* Claims about compare_directories and display_diff_results               *)
(***************************************************************************)
DirNames == {"types", "rules", "misc"}

\* the (resource type, name) pairs of a list of the report
Pairs(list) == {<<list[i].resource_type, list[i].name>> : i \in 1..Len(list)}

\* a known type that is a directory under one of the roots and passes the filter
Selected(t) ==
    /\ t \in known_types
    /\ source_dir.dirs[t].is_dir \/ target_dir.dirs[t].is_dir
    /\ filter_types = <<>> \/ \E i \in 1..Len(filter_types) : str_contains(t, filter_types[i])

\* the tree has a file name.json in its directory t
Listed(tree, t, n) == tree.dirs[t].is_dir /\ tree.dirs[t].files[n].st # "absent"

IsText(f) == f.st = "file"
IsJson(f) == f.st = "file" /\ f.text.json

\* the canonical text of a JSON file of resource type t under the policy
Canonical(t, f) == to_string_pretty(normalize_resource(self, t, f.text.v))

\* C3: a resource in both trees whose two files differ in their bytes but not in
\* their canonical content is neither in modified nor in errors.
C3_SameCanonicalUnchanged ==
    dpc = "done" =>
        \A t \in DirNames, n \in FileNames :
            LET a == source_dir.dirs[t].files[n]
                b == target_dir.dirs[t].files[n]
            IN (Selected(t) /\ IsJson(a) /\ IsJson(b) /\ a # b
                    /\ Canonical(t, a) = Canonical(t, b))
               => /\ <<t, n>> \notin Pairs(report.modified)
                  /\ <<t, n>> \notin Pairs(report.errors)

\* C4: a resource in both trees one of whose files is not valid JSON has an entry
\* in errors and is in none of added, removed, modified.
C4_InvalidJsonIsError ==
    dpc = "done" =>
        \A t \in DirNames, n \in FileNames :
            LET a == source_dir.dirs[t].files[n]
                b == target_dir.dirs[t].files[n]
            IN (Selected(t) /\ Listed(source_dir, t, n) /\ Listed(target_dir, t, n)
                    /\ ((IsText(a) /\ ~IsJson(a)) \/ (IsText(b) /\ ~IsJson(b))))
               => /\ <<t, n>> \in Pairs(report.errors)
                  /\ <<t, n>> \notin Pairs(report.added) \union Pairs(report.removed)
                                     \union Pairs(report.modified)

\* C5: every (resource type, name) pair of a selected type is in added iff its file
\* is only under the target root, in removed iff only under the source root, and
\* in modified or errors only if under both; no pair is in two of added, removed,
\* modified, nor twice in one of them.
C5_Complete ==
    dpc = "done" =>
        /\ \A t \in DirNames, n \in FileNames :
             LET inA == Selected(t) /\ Listed(source_dir, t, n)
                 inB == Selected(t) /\ Listed(target_dir, t, n)
                 p == <<t, n>>
             IN /\ p \in Pairs(report.added) <=> (inB /\ ~inA)
                /\ p \in Pairs(report.removed) <=> (inA /\ ~inB)
                /\ p \in Pairs(report.modified) \union Pairs(report.errors) => (inA /\ inB)
                /\ ~(p \in Pairs(report.added) /\ p \in Pairs(report.removed))
                /\ ~(p \in Pairs(report.added) /\ p \in Pairs(report.modified))
                /\ ~(p \in Pairs(report.removed) /\ p \in Pairs(report.modified))
        /\ Cardinality(Pairs(report.added)) = Len(report.added)
        /\ Cardinality(Pairs(report.removed)) = Len(report.removed)
        /\ Cardinality(Pairs(report.modified)) = Len(report.modified)

\* C5 witness: a report with an added, a removed and a modified resource, two of
\* them of the same type
C5_Witness ==
    /\ dpc = "done"
    /\ report.added # <<>> /\ report.removed # <<>> /\ report.modified # <<>>
    /\ \E n \in FileNames : <<"types", n>> \in Pairs(report.added)
    /\ \E n \in FileNames : <<"types", n>> \in Pairs(report.modified)

\* C6: with the roots exchanged, added is what removed was, removed is what added
\* was, and modified has the same pairs.
C6_Symmetric ==
    (dpc = "done" /\ swapped) =>
        /\ Pairs(report.added) = Pairs(prev_report.removed)
        /\ Len(report.added) = Len(prev_report.removed)
        /\ Pairs(report.removed) = Pairs(prev_report.added)
        /\ Len(report.removed) = Len(prev_report.added)
        /\ Pairs(report.modified) = Pairs(prev_report.modified)

\* C6 witness: the second run is done, and the first had found an added, a removed
\* and a modified resource
C6_Witness ==
    /\ dpc = "done" /\ swapped
    /\ prev_report.added # <<>> /\ prev_report.removed # <<>> /\ prev_report.modified # <<>>
    /\ Pairs(prev_report.added) # Pairs(prev_report.removed)

\* the error entries among the printed lines
PrintedErrors ==
    LET lines == SelectSeq(printed, LAMBDA l : l.kind = "error")
    IN [i \in 1..Len(lines) |-> lines[i].item]

\* C9: the human rendering of a report with errors prints every error entry.
C9_ErrorsShown ==
    (dpc = "shown" /\ printed[1].kind # "json" /\ report.errors # <<>>)
        => PrintedErrors = report.errors

\* C13: compare_directories returns no DiffResult when a root does not exist or is
\* not a directory.
C13_RootsMustBeDirectories ==
    dpc \in {"done", "shown"} => (source_dir.kind = "dir" /\ target_dir.kind = "dir")

\* a root holds no .json file in any directory named after a known type
Unpopulated(tree) == \A t \in known_types : get_json_files(tree, t) = {}

\* C15: in every DiffResult returned, success is true exactly when errors is empty and
\* has_changes() is true exactly when added, removed or modified is non-empty; two trees
\* with no populated recognized directory give three empty lists and success.
C15_SuccessAndHasChanges ==
    dpc \in {"done", "shown"} =>
        /\ report.success <=> report.errors = <<>>
        /\ has_changes(report)
              <=> (report.added # <<>> \/ report.removed # <<>> \/ report.modified # <<>>)
        /\ (Unpopulated(source_dir) /\ Unpopulated(target_dir)) =>
              /\ report.added = <<>> /\ report.removed = <<>> /\ report.modified = <<>>
              /\ report.success

\* a report with an error and with nothing but removed resources
C15_Witness ==
    /\ dpc = "done"
    /\ report.errors # <<>> /\ ~report.success
    /\ report.added = <<>> /\ report.modified = <<>> /\ report.removed # <<>>

\* C16: in every DiffResult returned, added, removed and modified are each in ascending
\* order of (resource_type, name), whatever order the names were taken in.
C16_ListsSorted ==
    dpc \in {"done", "shown"} =>
        \A list \in {report.added, report.removed, report.modified} :
            \A i, j \in 1..Len(list) :
                i < j =>
                    \/ str_cmp(list[i].resource_type, list[j].resource_type) = "Less"
                    \/ /\ list[i].resource_type = list[j].resource_type
                       /\ str_cmp(list[i].name, list[j].name) = "Less"

\* a report whose added list was collected in another order than it is returned in
C16_Witness ==
    /\ dpc = "done"
    /\ Len(report.added) >= 2
    /\ added # report.added

\* the resource is under both roots, in a directory that is compared
InBoth(t, n) == Selected(t) /\ Listed(source_dir, t, n) /\ Listed(target_dir, t, n)

\* one of its two files cannot be read; the error compare_files returns then
ReadFails(t, n) == ~IsText(source_dir.dirs[t].files[n]) \/ ~IsText(target_dir.dirs[t].files[n])

ReadError(t, n) ==
    [kind |-> "FileReadFailed",
     path |-> IF ~IsText(source_dir.dirs[t].files[n]) THEN path_of(source_dir, t, n)
              ELSE path_of(target_dir, t, n)]

\* C23: a resource under both roots one of whose files cannot be read has exactly one
\* entry in errors, made of its type, its name and the read error, and is in none of
\* added, removed, modified; every other resource is reported as it would be without
\* the failure.
C23_ReadFailureIsPerItem ==
    dpc = "done" =>
        \A t \in DirNames, n \in FileNames :
            LET p == <<t, n>>
                a == source_dir.dirs[t].files[n]
                b == target_dir.dirs[t].files[n]
                entries == {i \in 1..Len(report.errors) :
                                report.errors[i].resource_type = t /\ report.errors[i].name = n}
            IN IF InBoth(t, n) /\ ReadFails(t, n)
               THEN /\ Cardinality(entries) = 1
                    /\ \A i \in entries : report.errors[i].message = ReadError(t, n)
                    /\ p \notin Pairs(report.added) \union Pairs(report.removed)
                                \union Pairs(report.modified)
               ELSE /\ entries = {}
                    /\ p \in Pairs(report.added)
                          <=> (Selected(t) /\ Listed(target_dir, t, n) /\ ~Listed(source_dir, t, n))
                    /\ p \in Pairs(report.removed)
                          <=> (Selected(t) /\ Listed(source_dir, t, n) /\ ~Listed(target_dir, t, n))
                    /\ p \in Pairs(report.modified) <=> (InBoth(t, n) /\ a.text # b.text)

\* a report with two read errors in one directory and a third under the other root, and
\* a modified resource next to them
C23_Witness ==
    /\ dpc = "done"
    /\ \E i, j \in 1..Len(report.errors) :
           i # j /\ report.errors[i].resource_type = report.errors[j].resource_type
    /\ \E i, j \in 1..Len(report.errors) :
           report.errors[i].message.path[1] # report.errors[j].message.path[1]
    /\ report.modified # <<>>

\* C24: every record of added has change Added and no diff_text, every record of removed
\* has change Removed and no diff_text, every record of modified has change Modified and
\* the diff_text of its two files; a resource under both roots is in modified exactly
\* when both files were read and their texts differ.
C24_ChangeRecords ==
    dpc \in {"done", "shown"} =>
        /\ \A i \in 1..Len(report.added) :
               report.added[i].change = "Added" /\ report.added[i].diff_text = None
        /\ \A i \in 1..Len(report.removed) :
               report.removed[i].change = "Removed" /\ report.removed[i].diff_text = None
        /\ \A i \in 1..Len(report.modified) :
               LET r == report.modified[i]
               IN /\ r.change = "Modified"
                  /\ r.diff_text # None
                  /\ r.diff_text = Some(diff_text_of(file_at(source_dir, r.resource_type, r.name).text,
                                                     file_at(target_dir, r.resource_type, r.name).text,
                                                     full_diff))
        /\ \A t \in DirNames, n \in FileNames :
               InBoth(t, n) =>
                   (<<t, n>> \in Pairs(report.modified)
                       <=> /\ IsText(source_dir.dirs[t].files[n])
                           /\ IsText(target_dir.dirs[t].files[n])
                           /\ source_dir.dirs[t].files[n].text # target_dir.dirs[t].files[n].text)

\* a report with an added and a modified record, and a resource under both roots with
\* the same text that is in neither list
C24_Witness ==
    /\ dpc = "done"
    /\ report.added # <<>> /\ report.modified # <<>>
    /\ \E t \in DirNames, n \in FileNames :
           /\ InBoth(t, n) /\ ~ReadFails(t, n)
           /\ source_dir.dirs[t].files[n].text = target_dir.dirs[t].files[n].text

\* the names get_resource_types is to return
ExpectedTypes ==
    {t \in known_types :
        /\ t \in subdirectories(source_dir) \union subdirectories(target_dir)
        /\ filter_types = <<>> \/ \E i \in 1..Len(filter_types) : str_contains(t, filter_types[i])}

\* C25: get_resource_types returns exactly the known types that are a directory under
\* one of the roots and, under a filter, contain one of its terms, in strictly ascending
\* order; and no record of the report has a resource type outside the known types.
C25_ResourceTypes ==
    [][/\ (dpc = "start" /\ dpc' = "loop") =>
              /\ {resource_types'[i] : i \in 1..Len(resource_types')} = ExpectedTypes
              /\ \A i, j \in 1..Len(resource_types') :
                     i < j => str_cmp(resource_types'[i], resource_types'[j]) = "Less"
       /\ dpc' = "done" =>
              \A list \in {report'.added, report'.removed, report'.modified, report'.errors} :
                  \A i \in 1..Len(list) : list[i].resource_type \in known_types]_vars

\* the types to compare were taken under a filter that passes rules and not types, with
\* types, rules and the unknown misc all directories under the first root
C25_Witness ==
    /\ dpc = "loop" /\ filter_types = <<"rule", "misc">>
    /\ resource_types = <<"rules">>
    /\ subdirectories(source_dir) = {"types", "rules", "misc"}
    /\ Listed(source_dir, "misc", "Foo")

\* the report of the run that takes the names of every set in ascending order
ErrorsInNameOrder ==
    LET types == get_resource_types(sort_impl, source_dir, target_dir, filter_types)
        acc[k \in 0..Len(types)] ==
            IF k = 0 THEN <<>>
            ELSE acc[k - 1] \o
                 errors_pushed(types[k],
                               sort_strings(sort_impl,
                                            common_names(get_json_files(source_dir, types[k]),
                                                         get_json_files(target_dir, types[k]))))
    IN acc[Len(types)]

\* C27: for given trees and filter the report is the same in every run, the order of
\* errors included: it is the report of the run in which every directory listing and
\* every hash set yields its names in ascending order.
C27_Deterministic ==
    dpc \in {"done", "shown"} =>
        /\ report.errors = ErrorsInNameOrder
        /\ \A list \in {report.added, report.removed, report.modified} :
               \A i, j \in 1..Len(list) : i < j => key_cmp(list[i], list[j]) = "Less"

(***************************************************************************)
(* Claims about normalize_file and normalize_resource_file                 *)
(***************************************************************************)
\* C10: when the call returns an error, the file holds the bytes it held before.
C10_UntouchedOnFailure ==
    (fpc = "returned" /\ ~outcome.ok) => file = original

\* the number of newline characters a text ends in
trailing_newlines(text) == IF text.fmt = "pretty_nl" THEN 1 ELSE 0

\* C21: for a text that is JSON, normalize_str (and normalize_resource_file) produces the
\* serialization of the normalized value ending in exactly one newline; for a text that
\* is not JSON the call returns InvalidJson and produces no text.
C21_CanonicalTextEndsInNewline ==
    /\ (content.json /\ fpc \in {"serialized", "opened", "returned"}) =>
           /\ output.json
           /\ output.v = IF method = "normalize_file" THEN normalize(self, content.v)
                         ELSE normalize_resource(self, method, content.v)
           /\ trailing_newlines(output) = 1
    /\ (content # EmptyText /\ ~content.json /\ fpc = "returned") =>
           /\ ~outcome.ok /\ outcome.err.kind = "InvalidJson"
           /\ output = EmptyText

\* every array of out that may not be sorted (sort_arrays is off, or the array of v it
\* comes from has an element that is no object) holds, place by place, what the call
\* makes of the elements of that array
RECURSIVE ArraysKeepOrder(_, _)
ArraysKeepOrder(v, out) ==
    IF v.t = "obj"
    THEN /\ out.t = "obj"
         /\ \A i \in 1..Len(out.kv) :
                /\ get(v, out.kv[i][1]) # None
                /\ ArraysKeepOrder(get(v, out.kv[i][1])[1], out.kv[i][2])
    ELSE IF v.t = "arr"
    THEN /\ out.t = "arr" /\ Len(out.el) = Len(v.el)
         /\ (~config.sort_arrays \/ \E i \in 1..Len(v.el) : ~is_object(v.el[i])) =>
                \A i \in 1..Len(v.el) :
                    /\ out.el[i] = IF method \in {"procedures", "rules"} THEN v.el[i]
                                   ELSE normalize(self, v.el[i])
                    /\ ArraysKeepOrder(v.el[i], out.el[i])
    ELSE TRUE

\* C19: an array with an element that is no object, and any array when sort_arrays is
\* off, comes out of normalize and of normalize_resource, for every resource type and
\* for the properties and indexes of a type too, with its elements in input order.
C19_UnsortableArraysKeepOrder ==
    (content.json /\ output.json) => ArraysKeepOrder(content.v, output.v)

\* the element has a name that is a string
HasName(e) == is_object(e) /\ get(e, "name") # None /\ get(e, "name")[1].t = "str"

\* no element without a name stands before one that has a name, and the names ascend
NamedFirst(el) ==
    \A i, j \in 1..Len(el) :
        (i < j /\ HasName(el[j])) =>
            /\ HasName(el[i])
            /\ str_cmp(get(el[i], "name")[1].s, get(el[j], "name")[1].s) # "Greater"

\* C29: for resource type types, in the properties and indexes arrays written by
\* normalize_resource an element that lacks a name (or whose name is no string) stands
\* after every element that has a name, and the elements with names ascend by name.
C29_UnnamedMembersLast ==
    (method = "types" /\ content.json /\ output.json /\ output.v.t = "obj") =>
        \A key \in {"properties", "indexes"} :
            LET member == get(output.v, key)
            IN (member # None /\ member[1].t = "arr") => NamedFirst(member[1].el)

(***************************************************************************)
(* Claims about the directory walks and their callers                      *)
(***************************************************************************)
\* the directories under the root that the walk lists
WalkedDirs ==
    IF op = "normalize_directory"
    THEN {d \in DirNames : is_dir(exported, d)}
    ELSE {d \in DirNames : is_dir(exported, d) /\ \E i \in 1..Len(resource_dirs) : resource_dirs[i] = d}

\* the places of the .json files under them
Recognized ==
    {p \in {<<d, n>> : d \in WalkedDirs, n \in {"Foo", "Bar"}} :
        p[2] \in DOMAIN exported.dirs[p[1]].files /\ file_in(exported, p).st # "absent"}
    \union {p \in {<<d, "nested", "Baz">> : d \in WalkedDirs} :
                exported.dirs[p[1]].sub # <<>> /\ file_in(exported, p).st # "absent"}

\* a directory the walk cannot list, or for normalize_directory a root that is no directory
Blocked ==
    \/ op = "normalize_directory" /\ exported.kind # "dir"
    \/ \E d \in WalkedDirs : exported.dirs[d].sub # <<>> /\ ~exported.dirs[d].sub[1].readable

\* the file at a place holds the normalized form of what it held before the call
IsNormalized(p) ==
    LET f == file_in(exported, p)
    IN /\ f.st = "file" /\ f.text.json
       /\ file_in(export_dir, p) =
            Present(to_string_pretty(IF op = "normalize_directory" THEN normalize(self, f.text.v)
                                     ELSE normalize_resource(self, p[1], f.text.v)))

\* C11: a file that cannot be read, parsed or written never ends the walk: the call
\* fails only on a directory it cannot list, and when it returns its stats every .json file
\* under the directories it walks is either normalized or has exactly one entry in
\* error_files, files_processed counts the former, errors the latter, and together they
\* count every such file.
C11_PerFileFailuresCollected ==
    tpc \in {"returned", "done"} =>
        /\ walked.ok <=> ~Blocked
        /\ walked.ok =>
             LET st == walked.val
                 failed == {p \in Recognized : \E i \in 1..Len(st.error_files) :
                                st.error_files[i][1] = display(exported, p)}
             IN /\ st.errors = Len(st.error_files)
                /\ \A i, j \in 1..Len(st.error_files) :
                       st.error_files[i][1] = st.error_files[j][1] => i = j
                /\ \A i \in 1..Len(st.error_files) :
                       \E p \in Recognized : st.error_files[i][1] = display(exported, p)
                /\ \A p \in Recognized \ failed : IsNormalized(p)
                /\ st.files_processed = Cardinality(Recognized \ failed)
                /\ st.errors = Cardinality(failed)
                /\ st.files_processed + st.errors = Cardinality(Recognized)

\* a walk that met a file that is not JSON and a write that failed, normalized two other
\* files, and returned its stats
C11_Witness ==
    /\ tpc = "returned" /\ walked.ok
    /\ walked.val.files_processed >= 2 /\ walked.val.errors >= 2
    /\ \E i, j \in 1..Len(walked.val.error_files) :
          /\ walked.val.error_files[i][2].kind = "InvalidJson"
          /\ walked.val.error_files[j][2].kind = "FileWriteFailed"

\* C12: when normalize_export_directory returned stats with errors > 0, the result of
\* the command that called it (export, sync pull, diff of a profile) has success false.
C12_ErrorsFailTheOperation ==
    /\ (op \in {"export", "sync_pull"} /\ tpc = "done" /\ walked.ok /\ walked.val.errors > 0)
           => (op_result.ok /\ ~op_result.val.success)
    /\ (op = "diff" /\ dpc \in {"done", "shown"} /\ walked.val.errors > 0)
           => ~report.success

\* C14: normalize_export_directory on a root that does not exist or is not a directory
\* returns an error and no stats.
C14_RootMustBeDirectory ==
    (op # "normalize_directory" /\ tpc \in {"returned", "done"} /\ exported.kind # "dir")
        => ~walked.ok

\* C22: normalize_export_directory leaves every file under procedures and rules with the
\* bytes it had, and records no parse error for it, whatever the file holds.
C22_CodeFilesPassThrough ==
    (op # "normalize_directory" /\ tpc \in {"returned", "done"} /\ walked.ok) =>
        \A p \in Recognized :
            p[1] \in {"procedures", "rules"} =>
                /\ file_in(export_dir, p) = file_in(exported, p)
                /\ \A i \in 1..Len(walked.val.error_files) :
                       walked.val.error_files[i][1] = display(exported, p)
                           => walked.val.error_files[i][2].kind # "InvalidJson"
\* a directory whose listing fails part-way: its subdirectory cannot be listed
BlockedDir(d) == exported.dirs[d].sub # <<>> /\ ~exported.dirs[d].sub[1].readable

PlaceIn(d) == CHOOSE i \in 1..Len(resource_dirs) : resource_dirs[i] = d

\* a .json file that no order of visiting reaches: it lies under a directory that cannot
\* be listed, or under a resource directory that comes, in the fixed order of
\* resource_dirs, after one whose walk fails
Unreachable(p) ==
    \/ Len(p) = 3 /\ BlockedDir(p[1])
    \/ /\ op # "normalize_directory"
       /\ \E d \in WalkedDirs : BlockedDir(d) /\ PlaceIn(d) < PlaceIn(p[1])

\* the file at the place is listed in error_files
Failed(p) == \E i \in 1..Len(stats.error_files) : stats.error_files[i][1] = display(exported, p)

\* the lists of the run that takes every name in ascending order
ListsInNameOrder ==
    LET types == get_resource_types(sort_impl, source_dir, target_dir, filter_types)
        src(k) == get_json_files(source_dir, types[k])
        tgt(k) == get_json_files(target_dir, types[k])
        plain(k, names, change) ==
            LET order == sort_strings(sort_impl, names)
            IN [i \in 1..Len(order) |-> ResourceDiff(types[k], order[i], change, None)]
        acc[k \in 0..Len(types)] ==
            IF k = 0 THEN [added |-> <<>>, removed |-> <<>>, modified |-> <<>>]
            ELSE [added |-> acc[k - 1].added \o plain(k, added_names(src(k), tgt(k)), "Added"),
                  removed |-> acc[k - 1].removed
                                  \o plain(k, removed_names(src(k), tgt(k)), "Removed"),
                  modified |-> acc[k - 1].modified
                                   \o modified_pushed(types[k],
                                          sort_strings(sort_impl, common_names(src(k), tgt(k))))]
    IN acc[Len(types)]

\* C30: what the walk makes of a file and what it counts do not depend on the order in
\* which the directories yield their entries: when the call returns, every .json file
\* that some order of visiting reaches is normalized or listed in error_files, every
\* other file is as it was, and files_processed and errors count the former; and the
\* added, removed and modified lists of compare_directories are those of the run that
\* takes every name in ascending order.
C30_PerFileWorkIndependent ==
    /\ tpc \in {"returned", "done"} =>
           /\ \A p \in Recognized :
                  IF Unreachable(p) THEN file_in(export_dir, p) = file_in(exported, p)
                  ELSE IsNormalized(p) \/ Failed(p)
           /\ stats.files_processed + stats.errors
                  = Cardinality({p \in Recognized : ~Unreachable(p)})
    /\ dpc \in {"done", "shown"} =>
           /\ report.added = ListsInNameOrder.added
           /\ report.removed = ListsInNameOrder.removed
           /\ report.modified = ListsInNameOrder.modified

(***************************************************************************)
(* Claims about run_push                                                   *)
(***************************************************************************)
Before(i, call) == \E j \in 1..(i - 1) : calls[j] = call

\* C26: in every run of run_push, for every output format, the import to the server
\* is invoked only after the diff preview step and only if --yes was passed or the
\* confirmation prompt was answered affirmatively, and never with --dry-run.
C26_ImportNeedsConfirmation ==
    \A i \in 1..Len(calls) :
        calls[i] = "import" =>
            /\ Before(i, "diff")
            /\ push_args.yes \/ Before(i, "confirm_yes")
            /\ ~push_args.dry_run

====
